---- MODULE Spec2Model ----
(***************************************************************************)
(* Model of the two context-measurement scripts of Tiki.Desktop:           *)
(*   .tiki/scripts/measure-context.py  (builds a snapshot of token counts) *)
(*   .tiki/scripts/compare-context.py  (compares a snapshot to a baseline) *)
(* A run of either script is a sequence of steps of its main(); the file   *)
(* system and the baseline file are the inputs, chosen in Init.            *)
(***************************************************************************)
EXTENDS Integers, Sequences, FiniteSets, TLC

VARIABLES
    cmdFiles,      \* path -> state of the file at that path
    promptFiles,   \* <<dir, filename>> -> state of the file inside a prompt dir
    dirs,          \* prompt directory -> what is on disk at that path
    baselineFile,  \* what is on disk at .tiki/context-baseline.json
    argv,          \* sys.argv: the script run, then its arguments
    pc,            \* position of main()
    err,           \* exception that left main(), "none" if none
    printed,       \* sequence of the sections written to stdout so far
    baseline,      \* compare: value returned by load_baseline()
    current,       \* compare: value returned by measure_current()
    prompts,       \* compare: value returned by measure_prompt_files()
    rows,          \* compare: the per-command rows printed
    totals,        \* compare: the TOTAL row printed
    eff,           \* compare: the effective-savings figures printed
    data           \* measure: the snapshot built by main()

vars == <<cmdFiles, promptFiles, dirs, baselineFile, argv, pc, err, printed,
          baseline, current, prompts, rows, totals, eff, data>>

---------------------------------------------------------------------------
(* Bounds of the model *)

\* longest file content, in characters
MaxLen == 1
\* largest token count stored in a baseline entry
MaxTok == 2

---------------------------------------------------------------------------
(* Program constants *)

SystemPrompt == 3000
ClaudeMdEstimate == 1115
PlanFile == 1500
PrevSummaries == 500
ContextBudget == 200000

Commands ==
    << <<"execute.md", ".claude/commands/tiki/execute.md">>,
       <<"plan-issue.md", ".claude/commands/tiki/plan-issue.md">>,
       <<"define-requirements.md", ".claude/commands/tiki/define-requirements.md">>,
       <<"research.md", ".claude/commands/tiki/research.md">>,
       <<"debug.md", ".claude/commands/tiki/debug.md">>,
       <<"release-yolo.md", ".claude/commands/tiki/release-yolo.md">> >>

PromptDirs ==
    << ".tiki/prompts/execute", ".tiki/prompts/plan", ".tiki/prompts/requirements",
       ".tiki/prompts/research", ".tiki/prompts/debug", ".tiki/prompts/release" >>

MeasureScript == ".tiki/scripts/measure-context.py"
CompareScript == ".tiki/scripts/compare-context.py"

ClaudeMdPath == "CLAUDE.md"
ExecutePath == ".claude/commands/tiki/execute.md"

CommandNames == { Commands[i][1] : i \in 1..Len(Commands) }
CommandPaths == { Commands[i][2] : i \in 1..Len(Commands) }
PromptDirSet == { PromptDirs[i] : i \in 1..Len(PromptDirs) }

---------------------------------------------------------------------------
(* Python values *)

\* A dict is the sequence of its items [k, v] in insertion order.
HasKey(d, k) == \E i \in 1..Len(d) : d[i].k = k
DictGet(d, k) == d[CHOOSE i \in 1..Len(d) : d[i].k = k].v
DictSet(d, k, v) ==
    IF HasKey(d, k)
    THEN [i \in 1..Len(d) |-> IF d[i].k = k THEN [k |-> k, v |-> v] ELSE d[i]]
    ELSE Append(d, [k |-> k, v |-> v])
DictKeys(d) == [i \in 1..Len(d) |-> d[i].k]

\* A float obtained by a true division a / b is kept as the exact fraction <<a, b>>.
Frac(a, b) == <<a, b>>
FracEq(p, q) == p[1] * q[2] = q[1] * p[2]
Zero == Frac(0, 1)

RECURSIVE SumSeq(_)
SumSeq(s) == IF s = <<>> THEN 0 ELSE Head(s) + SumSeq(Tail(s))

---------------------------------------------------------------------------
(* Files *)

NL == "\n"
Chars == {"x", NL}
Contents == UNION { [1..n -> Chars] : n \in 0..MaxLen }
Unreadable == {"missing", "denied", "undecodable"}
FileStates ==
    [readable : {FALSE}, why : Unreadable, content : {<<>>}]
    \cup [readable : {TRUE}, why : {"none"}, content : Contents]

\* enc.encode(content): the tokenizer is a library; on this alphabet it is
\* modelled as one token per maximal run of equal characters.
RECURSIVE encode(_)
encode(content) ==
    IF Len(content) = 0 THEN <<>>
    ELSE IF Len(content) >= 2 /\ content[1] = content[2]
         THEN encode(Tail(content))
         ELSE <<content[1]>> \o encode(Tail(content))

\* content.split('\n'): the segments between newlines, empty ones included.
RECURSIVE split(_)
split(content) ==
    IF Len(content) = 0 THEN << <<>> >>
    ELSE LET rest == split(Tail(content))
         IN IF Head(content) = NL
            THEN << <<>> >> \o rest
            ELSE << <<Head(content)>> \o Head(rest) >> \o Tail(rest)

---------------------------------------------------------------------------
(* Exceptions and the file system calls *)

NoExc == "none"

\* open(filepath, 'r', encoding='utf-8') followed by f.read()
ReadText(f) ==
    IF f.readable THEN [raised |-> NoExc, content |-> f.content]
    ELSE [raised |-> CASE f.why = "missing" -> "FileNotFoundError"
                       [] f.why = "denied" -> "PermissionError"
                       [] OTHER -> "UnicodeDecodeError",
          content |-> <<>>]

\* os.path.exists(dir_path) and os.listdir(dir_path)
\* names a directory can hold: one that ends in ".md" and one that does not
FileNames == { <<"a", ".", "m", "d">>, <<"m", "d", ".", "t", "x", "t">> }
Listings ==
    { <<>>, << <<"a", ".", "m", "d">> >>, << <<"m", "d", ".", "t", "x", "t">> >>,
      << <<"a", ".", "m", "d">>, <<"m", "d", ".", "t", "x", "t">> >> }
DirStates ==
    [exists : {FALSE}, isdir : {FALSE}, listing : {<<>>}]
    \cup [exists : {TRUE}, isdir : {FALSE}, listing : {<<>>}]
    \cup [exists : {TRUE}, isdir : {TRUE}, listing : Listings]

exists(d) == d.exists
listdir(d) ==
    IF d.isdir THEN [raised |-> NoExc, names |-> d.listing]
    ELSE [raised |-> "NotADirectoryError", names |-> <<>>]

\* filename.endswith(suffix)
endswith(name, suffix) ==
    /\ Len(name) >= Len(suffix)
    /\ SubSeq(name, Len(name) - Len(suffix) + 1, Len(name)) = suffix

DotMd == <<".", "m", "d">>

\* os.path.join(dir_path, filename)
join(dir_path, filename) == <<dir_path, filename>>

---------------------------------------------------------------------------
(* compare-context.py *)

\* count_tokens(filepath), given the state f of the file at filepath
c_count_tokens(f) ==
    LET r == ReadText(f)
    IN IF r.raised # NoExc
       THEN [raised |-> NoExc, tokens |-> 0, lines |-> 0]
       ELSE [raised |-> NoExc,
             tokens |-> Len(encode(r.content)),
             lines |-> Len(split(r.content))]

\* Values json.load can return; None is also what load_baseline returns when the
\* file is missing.
JsonValue(kind, n, hasTs, hasCmds, cmds) ==
    [kind |-> kind, n |-> n, hasTimestamp |-> hasTs, hasCommands |-> hasCmds,
     commands |-> cmds]
None == JsonValue("None", 0, FALSE, FALSE, <<>>)
EmptyDict == JsonValue("dict", 0, FALSE, FALSE, <<>>)

\* bool(value)
Truthy(v) ==
    CASE v.kind = "None" -> FALSE
      [] v.kind = "dict" -> v.hasTimestamp \/ v.hasCommands
      [] OTHER -> v.n # 0

Guidance ==
    << "ERROR: No baseline found. Run first:",
       "  python .tiki/scripts/measure-context.py --json > .tiki/context-baseline.json" >>

\* load_baseline without its except clause: the missing file raises
load_baseline_no_except ==
    CASE baselineFile.state = "missing" ->
           [raised |-> "FileNotFoundError", printed |-> <<>>, value |-> None]
      [] baselineFile.state = "denied" ->
           [raised |-> "PermissionError", printed |-> <<>>, value |-> None]
      [] baselineFile.state = "invalid" ->
           [raised |-> "JSONDecodeError", printed |-> <<>>, value |-> None]
      [] OTHER ->
           [raised |-> NoExc, printed |-> <<>>, value |-> baselineFile.value]

load_baseline ==
    CASE baselineFile.state = "missing" ->
           [raised |-> NoExc, printed |-> Guidance, value |-> None]
      [] baselineFile.state = "denied" ->
           [raised |-> "PermissionError", printed |-> <<>>, value |-> None]
      [] baselineFile.state = "invalid" ->
           [raised |-> "JSONDecodeError", printed |-> <<>>, value |-> None]
      [] OTHER ->
           [raised |-> NoExc, printed |-> <<>>, value |-> baselineFile.value]

RECURSIVE c_measure_loop(_, _)
c_measure_loop(i, results) ==
    IF i > Len(Commands) THEN [raised |-> NoExc, results |-> results]
    ELSE LET name == Commands[i][1]
             path == Commands[i][2]
             m == c_count_tokens(cmdFiles[path])
         IN IF m.raised # NoExc THEN [raised |-> m.raised, results |-> results]
            ELSE c_measure_loop(i + 1,
                    DictSet(results, name, [tokens |-> m.tokens, lines |-> m.lines]))

measure_current == c_measure_loop(1, <<>>)

NoPrompts == [raised |-> NoExc, total_tokens |-> 0, total_lines |-> 0, files |-> <<>>]

RECURSIVE c_prompt_files_loop(_, _, _)
c_prompt_files_loop(dir_path, names, acc) ==
    IF names = <<>> \/ acc.raised # NoExc THEN acc
    ELSE LET filename == Head(names)
         IN IF endswith(filename, DotMd)
            THEN LET filepath == join(dir_path, filename)
                     m == c_count_tokens(promptFiles[filepath])
                 IN c_prompt_files_loop(dir_path, Tail(names),
                       IF m.raised # NoExc THEN [acc EXCEPT !.raised = m.raised]
                       ELSE [raised |-> NoExc,
                             total_tokens |-> acc.total_tokens + m.tokens,
                             total_lines |-> acc.total_lines + m.lines,
                             files |-> Append(acc.files,
                                        [path |-> filepath, tokens |-> m.tokens,
                                         lines |-> m.lines])])
            ELSE c_prompt_files_loop(dir_path, Tail(names), acc)

RECURSIVE c_prompt_dirs_loop(_, _)
c_prompt_dirs_loop(i, acc) ==
    IF i > Len(PromptDirs) \/ acc.raised # NoExc THEN acc
    ELSE LET dir_path == PromptDirs[i]
         IN IF exists(dirs[dir_path])
            THEN LET l == listdir(dirs[dir_path])
                 IN IF l.raised # NoExc THEN [acc EXCEPT !.raised = l.raised]
                    ELSE c_prompt_dirs_loop(i + 1,
                            c_prompt_files_loop(dir_path, l.names, acc))
            ELSE c_prompt_dirs_loop(i + 1, acc)

c_measure_prompt_files == c_prompt_dirs_loop(1, NoPrompts)

\* baseline["timestamp"]
c_subscript_timestamp(b) ==
    CASE b.kind # "dict" -> "TypeError"
      [] ~b.hasTimestamp -> "KeyError"
      [] OTHER -> NoExc

\* baseline['commands']
c_subscript_commands(b) ==
    CASE b.kind # "dict" -> "TypeError"
      [] ~b.hasCommands -> "KeyError"
      [] OTHER -> NoExc

\* An entry of baseline['commands'] is a dict that may hold the key 'tokens'.
Entry(hasTokens, tokens) == [hasTokens |-> hasTokens, tokens |-> tokens]
EmptyEntry == Entry(FALSE, 0)

\* baseline['commands'].get(name, {})
c_get_base(commands, name) ==
    IF HasKey(commands, name) THEN DictGet(commands, name) ELSE EmptyEntry

\* base.get('tokens', 0)
c_get_tokens(base) == IF base.hasTokens THEN base.tokens ELSE 0

\* the percentage guarded by base_tokens != 0
c_pct_change_nonzero_guard(change, base_tokens) ==
    IF base_tokens # 0 THEN Frac(change * 100, base_tokens) ELSE Zero

\* (change / base_tokens * 100) if base_tokens > 0 else 0
c_pct_change(change, base_tokens) ==
    IF base_tokens > 0 THEN Frac(change * 100, base_tokens) ELSE Zero

c_indicator(change) ==
    IF change < 0 THEN "improved" ELSE IF change = 0 THEN "unchanged" ELSE "regressed"

\* total_baseline += base_tokens
c_add_baseline(total_baseline, base_tokens) == total_baseline + base_tokens

\* total_current = curr_tokens
c_add_current_overwrite(total_current, curr_tokens) == curr_tokens

\* total_current += curr_tokens
c_add_current(total_current, curr_tokens) == total_current + curr_tokens

\* for name, curr in current.items(): ... (the rows are printed as they are computed)
RECURSIVE c_rows_loop(_, _)
c_rows_loop(i, acc) ==
    IF i > Len(current) \/ acc.raised # NoExc THEN acc
    ELSE LET name == current[i].k
             curr == current[i].v
             e == c_subscript_commands(baseline)
         IN IF e # NoExc THEN [acc EXCEPT !.raised = e]
            ELSE LET base == c_get_base(baseline.commands, name)
                     base_tokens == c_get_tokens(base)
                     curr_tokens == curr.tokens
                     change == curr_tokens - base_tokens
                 IN c_rows_loop(i + 1,
                      [raised |-> NoExc,
                       total_baseline |-> c_add_baseline(acc.total_baseline, base_tokens),
                       total_current |-> c_add_current(acc.total_current, curr_tokens),
                       rows |-> Append(acc.rows,
                                  [name |-> name,
                                   base_tokens |-> base_tokens,
                                   curr_tokens |-> curr_tokens,
                                   change |-> change,
                                   pct_change |-> c_pct_change(change, base_tokens),
                                   indicator |-> c_indicator(change)])])

c_rows ==
    c_rows_loop(1, [raised |-> NoExc, total_baseline |-> 0, total_current |-> 0,
                    rows |-> <<>>])

\* the TOTAL row
c_total_row(total_baseline, total_current) ==
    LET total_change == total_current - total_baseline
    IN [total_baseline |-> total_baseline,
        total_current |-> total_current,
        total_change |-> total_change,
        total_pct |-> IF total_baseline > 0
                      THEN Frac(total_change * 100, total_baseline) ELSE Zero]

NoTotals == c_total_row(0, 0)

\* baseline['commands']['execute.md']['tokens']
c_exec_baseline(b) ==
    LET e == c_subscript_commands(b)
    IN CASE e # NoExc -> [raised |-> e, tokens |-> 0]
         [] ~HasKey(b.commands, "execute.md") -> [raised |-> "KeyError", tokens |-> 0]
         [] ~DictGet(b.commands, "execute.md").hasTokens ->
              [raised |-> "KeyError", tokens |-> 0]
         [] OTHER -> [raised |-> NoExc, tokens |-> DictGet(b.commands, "execute.md").tokens]

\* current['execute.md']['tokens']
c_exec_current(c) == DictGet(c, "execute.md").tokens

c_before_total(exec_baseline) ==
    SystemPrompt + exec_baseline + ClaudeMdEstimate + PlanFile + PrevSummaries

c_after_total(exec_current) ==
    SystemPrompt + exec_current + ClaudeMdEstimate + PlanFile + PrevSummaries

\* savings/before_total*100
c_reduction(savings, before_total) ==
    IF before_total = 0 THEN [raised |-> "ZeroDivisionError", value |-> Zero]
    ELSE [raised |-> NoExc, value |-> Frac(savings * 100, before_total)]

\* the verdict with savings >= 0 in its first test
c_verdict_ge(savings) ==
    IF savings >= 0 THEN "saving" ELSE IF savings = 0 THEN "no change" ELSE "increased"

c_verdict(savings) ==
    IF savings > 0 THEN "saving" ELSE IF savings = 0 THEN "no change" ELSE "increased"

NoEff == [before_total |-> 0, after_total |-> 0, savings |-> 0, reduction |-> Zero]

---------------------------------------------------------------------------
(* measure-context.py *)

\* count_tokens that catches FileNotFoundError only
m_count_tokens_narrow_except(f) ==
    LET r == ReadText(f)
    IN IF r.raised = "FileNotFoundError"
       THEN [raised |-> NoExc, tokens |-> 0, lines |-> 0]
       ELSE [raised |-> r.raised,
             tokens |-> Len(encode(r.content)),
             lines |-> Len(split(r.content))]

\* count_tokens(filepath), given the state f of the file at filepath
m_count_tokens(f) ==
    LET r == ReadText(f)
    IN IF r.raised # NoExc
       THEN [raised |-> NoExc, tokens |-> 0, lines |-> 0]
       ELSE [raised |-> NoExc,
             tokens |-> Len(encode(r.content)),
             lines |-> Len(split(r.content))]

\* round(num / den * 100, 2), in hundredths of a percent (num >= 0, den > 0)
round2_pct(num, den) ==
    LET q == (num * 10000) \div den
        r == (num * 10000) % den
    IN IF 2 * r < den THEN q
       ELSE IF 2 * r > den THEN q + 1
       ELSE IF q % 2 = 0 THEN q ELSE q + 1

RECURSIVE m_commands_loop(_, _)
m_commands_loop(i, results) ==
    IF i > Len(Commands) THEN [raised |-> NoExc, results |-> results]
    ELSE LET name == Commands[i][1]
             path == Commands[i][2]
             m == m_count_tokens(cmdFiles[path])
         IN IF m.raised # NoExc THEN [raised |-> m.raised, results |-> results]
            ELSE m_commands_loop(i + 1,
                    DictSet(results, name,
                       [path |-> path, tokens |-> m.tokens, lines |-> m.lines,
                        pct_of_200k |-> round2_pct(m.tokens, ContextBudget)]))

measure_commands == m_commands_loop(1, <<>>)

NoInvocation ==
    [components |-> <<>>, total_tokens |-> 0, remaining |-> 0, pct_used |-> 0]

measure_execute_invocation ==
    LET e == m_count_tokens(cmdFiles[ExecutePath])
        c == m_count_tokens(cmdFiles[ClaudeMdPath])
    IN IF e.raised # NoExc THEN [raised |-> e.raised, value |-> NoInvocation]
       ELSE IF c.raised # NoExc THEN [raised |-> c.raised, value |-> NoInvocation]
       ELSE LET components ==
                    << [k |-> "claude_code_system_prompt", v |-> SystemPrompt],
                       [k |-> "execute_md", v |-> e.tokens],
                       [k |-> "claude_md", v |-> c.tokens],
                       [k |-> "plan_file", v |-> PlanFile],
                       [k |-> "prev_summaries", v |-> PrevSummaries] >>
                total == SumSeq([i \in 1..Len(components) |-> components[i].v])
            IN [raised |-> NoExc,
                value |-> [components |-> components,
                           total_tokens |-> total,
                           remaining |-> ContextBudget - total,
                           pct_used |-> round2_pct(total, ContextBudget)]]

RECURSIVE m_prompt_files_loop(_, _, _)
m_prompt_files_loop(dir_path, names, acc) ==
    IF names = <<>> \/ acc.raised # NoExc THEN acc
    ELSE LET filename == Head(names)
         IN IF endswith(filename, DotMd)
            THEN LET filepath == join(dir_path, filename)
                     m == m_count_tokens(promptFiles[filepath])
                 IN m_prompt_files_loop(dir_path, Tail(names),
                       IF m.raised # NoExc THEN [acc EXCEPT !.raised = m.raised]
                       ELSE [raised |-> NoExc,
                             results |-> DictSet(acc.results, filename,
                                           [tokens |-> m.tokens, lines |-> m.lines])])
            ELSE m_prompt_files_loop(dir_path, Tail(names), acc)

\* results[dir_path] = dir_results without the test
m_keep_dir_always(results, dir_path, dir_results) ==
    DictSet(results, dir_path, dir_results)

\* if dir_results: results[dir_path] = dir_results
m_keep_dir(results, dir_path, dir_results) ==
    IF dir_results # <<>> THEN DictSet(results, dir_path, dir_results) ELSE results

RECURSIVE m_prompt_dirs_loop(_, _)
m_prompt_dirs_loop(i, acc) ==
    IF i > Len(PromptDirs) \/ acc.raised # NoExc THEN acc
    ELSE LET dir_path == PromptDirs[i]
         IN IF exists(dirs[dir_path])
            THEN LET l == listdir(dirs[dir_path])
                 IN IF l.raised # NoExc THEN [acc EXCEPT !.raised = l.raised]
                    ELSE LET d == m_prompt_files_loop(dir_path, l.names,
                                     [raised |-> NoExc, results |-> <<>>])
                         IN IF d.raised # NoExc THEN [acc EXCEPT !.raised = d.raised]
                            ELSE m_prompt_dirs_loop(i + 1,
                                   [raised |-> NoExc,
                                    results |-> m_keep_dir(acc.results, dir_path,
                                                           d.results)])
            ELSE m_prompt_dirs_loop(i + 1, acc)

m_measure_prompt_files == m_prompt_dirs_loop(1, [raised |-> NoExc, results |-> <<>>])

\* the totals with the prompt files' tokens folded in
m_totals_with_prompts(commands) ==
    [all_large_commands_tokens |->
        SumSeq([i \in 1..Len(commands) |-> commands[i].v.tokens])
        + SumSeq([i \in 1..Len(data.prompt_files) |->
                    SumSeq([j \in 1..Len(data.prompt_files[i].v) |->
                              data.prompt_files[i].v[j].v.tokens])]),
     all_large_commands_lines |->
        SumSeq([i \in 1..Len(commands) |-> commands[i].v.lines])]

\* sum(c['tokens'] for c in data['commands'].values()) and the same for 'lines'
m_totals(commands) ==
    [all_large_commands_tokens |->
        SumSeq([i \in 1..Len(commands) |-> commands[i].v.tokens]),
     all_large_commands_lines |->
        SumSeq([i \in 1..Len(commands) |-> commands[i].v.lines])]

\* '--json' in sys.argv
output_json == \E i \in 1..Len(argv) : argv[i] = "--json"

---------------------------------------------------------------------------
(* Inputs *)

AllFilePaths == CommandPaths \cup {ClaudeMdPath}
PromptFilePaths == { join(d, n) : d \in PromptDirSet, n \in FileNames }

DefaultFile == [readable |-> TRUE, why |-> "none", content |-> <<>>]
AbsentDir == [exists |-> FALSE, isdir |-> FALSE, listing |-> <<>>]

\* execute.md in one state, the other measured files in another
FilesByRole ==
    { [p \in AllFilePaths |-> IF p = ExecutePath THEN fe ELSE fo] :
        fe \in FileStates, fo \in FileStates }

\* every measured file in the same state
FilesAlike == { [p \in AllFilePaths |-> f] : f \in FileStates }

\* any subset of the command files unreadable for one reason, the rest alike
FilesBySubset ==
    { [p \in AllFilePaths |->
         IF p \in U THEN [readable |-> FALSE, why |-> w, content |-> <<>>]
         ELSE [readable |-> TRUE, why |-> "none", content |-> c]] :
        U \in SUBSET CommandPaths, w \in Unreadable, c \in Contents }

\* the first prompt directory in one state, the others in another
DirSystems ==
    { [d \in PromptDirSet |-> IF d = PromptDirs[1] THEN d1 ELSE d2] :
        d1 \in DirStates, d2 \in DirStates }
\* the first two prompt directories each in a state of its own, the others in a third
DirSystemsByThree ==
    { [d \in PromptDirSet |->
         IF d = PromptDirs[1] THEN d1 ELSE IF d = PromptDirs[2] THEN d2 ELSE d3] :
        d1 \in DirStates, d2 \in DirStates, d3 \in DirStates }
NoDirs == [d \in PromptDirSet |-> AbsentDir]

PromptFileSystems == { [p \in PromptFilePaths |-> f] : f \in FileStates }
DefaultPromptFiles == [p \in PromptFilePaths |-> DefaultFile]

\* the sub-sequence of the command names that lie in S, in declaration order
RECURSIVE NamesIn(_, _)
NamesIn(i, S) ==
    IF i > Len(Commands) THEN <<>>
    ELSE (IF Commands[i][1] \in S THEN <<Commands[i][1]>> ELSE <<>>) \o NamesIn(i + 1, S)

\* -(3000 + 1115 + 1500 + 500): the stored count that makes before_total zero
NegOverhead == 0 - (SystemPrompt + ClaudeMdEstimate + PlanFile + PrevSummaries)

BaselineEntries(vals) == { EmptyEntry } \cup { Entry(TRUE, t) : t \in vals }

\* baseline['commands']: any subset of the command names; execute.md holds one
\* entry and the other names another
BaselineCommands ==
    { LET ks == NamesIn(1, S)
      IN [i \in 1..Len(ks) |->
            [k |-> ks[i], v |-> IF ks[i] = "execute.md" THEN be ELSE bo]] :
        S \in SUBSET CommandNames,
        be \in BaselineEntries({NegOverhead, -1} \cup 0..MaxTok),
        bo \in BaselineEntries(0..MaxTok) }

\* every command name present
FullBaselineCommands == { c \in BaselineCommands : Len(c) = Len(Commands) }

DefaultBaseline ==
    [state |-> "json",
     value |-> JsonValue("dict", 0, TRUE, TRUE,
                 [i \in 1..Len(Commands) |-> [k |-> Commands[i][1], v |-> Entry(TRUE, 1)]])]

OddBaselineValues ==
    { None, EmptyDict,
      JsonValue("bool", 0, FALSE, FALSE, <<>>), JsonValue("bool", 1, FALSE, FALSE, <<>>),
      JsonValue("int", 0, FALSE, FALSE, <<>>), JsonValue("int", 1, FALSE, FALSE, <<>>),
      JsonValue("str", 0, FALSE, FALSE, <<>>), JsonValue("list", 0, FALSE, FALSE, <<>>),
      JsonValue("list", 1, FALSE, FALSE, <<>>),
      JsonValue("dict", 0, TRUE, FALSE, <<>>), JsonValue("dict", 0, FALSE, TRUE, <<>>) }

\* no usable record at .tiki/context-baseline.json
OddBaselineFiles ==
    { [state |-> s, value |-> None] : s \in {"missing", "denied", "invalid"} }
    \cup { [state |-> "json", value |-> v] : v \in OddBaselineValues }

BaselineRecords(cmds) ==
    { [state |-> "json", value |-> JsonValue("dict", 0, TRUE, TRUE, c)] : c \in cmds }

\* The inputs of a run of compare-context.py: <<files, dirs, prompt files, baseline>>
CompareInputs ==
    (FilesByRole \X {NoDirs} \X {DefaultPromptFiles} \X OddBaselineFiles)
    \cup (FilesAlike \X {NoDirs} \X {DefaultPromptFiles} \X BaselineRecords(BaselineCommands))
    \cup (FilesByRole \X {NoDirs} \X {DefaultPromptFiles}
             \X BaselineRecords(FullBaselineCommands))
    \cup (FilesAlike \X DirSystems \X PromptFileSystems \X {DefaultBaseline})

NoData ==
    [built |-> FALSE, timestamp |-> "", commands |-> <<>>,
     execute_invocation |-> NoInvocation,
     prompt_files |-> <<>>,
     totals |-> [all_large_commands_tokens |-> 0, all_large_commands_lines |-> 0]]

InitCompare ==
    /\ \E in \in CompareInputs :
          /\ cmdFiles = in[1]
          /\ dirs = in[2]
          /\ promptFiles = in[3]
          /\ baselineFile = in[4]
    /\ argv = <<CompareScript>>
    /\ pc = "c_main"
    /\ err = NoExc
    /\ printed = <<>>
    /\ baseline = None
    /\ current = <<>>
    /\ prompts = NoPrompts
    /\ rows = <<>>
    /\ totals = NoTotals
    /\ eff = NoEff
    /\ data = NoData

---------------------------------------------------------------------------
(* compare-context.py: main() *)

Env == <<cmdFiles, promptFiles, dirs, baselineFile, argv>>

\* An exception leaves main(): the traceback is written to stderr.
Raise(e) == /\ err' = e
            /\ pc' = "failed"

\* baseline = load_baseline(); if not baseline: return
CLoadBaseline ==
    /\ pc = "c_main"
    /\ LET r == load_baseline
       IN IF r.raised # NoExc
          THEN /\ Raise(r.raised)
               /\ UNCHANGED <<printed, baseline>>
          ELSE /\ printed' = printed \o r.printed
               /\ baseline' = r.value
               /\ err' = err
               /\ pc' = IF ~Truthy(r.value) THEN "done" ELSE "c_measure"
    /\ UNCHANGED <<Env, current, prompts, rows, totals, eff, data>>

\* current = measure_current(); prompts = measure_prompt_files()
CMeasure ==
    /\ pc = "c_measure"
    /\ LET c == measure_current
           p == c_measure_prompt_files
       IN CASE c.raised # NoExc ->
                 /\ Raise(c.raised)
                 /\ UNCHANGED <<current, prompts>>
            [] c.raised = NoExc /\ p.raised # NoExc ->
                 /\ Raise(p.raised)
                 /\ current' = c.results
                 /\ UNCHANGED prompts
            [] OTHER ->
                 /\ current' = c.results
                 /\ prompts' = p
                 /\ err' = err
                 /\ pc' = "c_header"
    /\ UNCHANGED <<Env, printed, baseline, rows, totals, eff, data>>

\* the report header, which prints baseline["timestamp"][:10]
CHeader ==
    /\ pc = "c_header"
    /\ LET e == c_subscript_timestamp(baseline)
       IN IF e # NoExc
          THEN /\ Raise(e)
               /\ printed' = printed \o <<"title">>
          ELSE /\ printed' = printed \o <<"title", "dates", "table header">>
               /\ err' = err
               /\ pc' = "c_rows"
    /\ UNCHANGED <<Env, baseline, current, prompts, rows, totals, eff, data>>

\* the per-command rows and the TOTAL row
CRows ==
    /\ pc = "c_rows"
    /\ LET r == c_rows
       IN IF r.raised # NoExc
          THEN /\ Raise(r.raised)
               /\ rows' = r.rows
               /\ printed' = printed \o [i \in 1..Len(r.rows) |-> "row"]
               /\ UNCHANGED totals
          ELSE /\ rows' = r.rows
               /\ totals' = c_total_row(r.total_baseline, r.total_current)
               /\ printed' = printed \o [i \in 1..Len(r.rows) |-> "row"] \o <<"total">>
               /\ err' = err
               /\ pc' = "c_prompts"
    /\ UNCHANGED <<Env, baseline, current, prompts, eff, data>>

\* if prompts['files']: the extracted prompt files
CPrompts ==
    /\ pc = "c_prompts"
    /\ printed' = IF prompts.files # <<>> THEN printed \o <<"prompt files">> ELSE printed
    /\ pc' = "c_savings"
    /\ UNCHANGED <<Env, err, baseline, current, prompts, rows, totals, eff, data>>

\* the effective savings for /tiki:execute
CSavings ==
    /\ pc = "c_savings"
    /\ LET b == c_exec_baseline(baseline)
       IN IF b.raised # NoExc
          THEN /\ Raise(b.raised)
               /\ UNCHANGED <<printed, eff>>
          ELSE LET exec_current == c_exec_current(current)
                   before_total == c_before_total(b.tokens)
                   after_total == c_after_total(exec_current)
                   savings == before_total - after_total
                   red == c_reduction(savings, before_total)
               IN /\ eff' = [before_total |-> before_total, after_total |-> after_total,
                             savings |-> savings, reduction |-> red.value]
                  /\ IF red.raised # NoExc
                     THEN /\ Raise(red.raised)
                          /\ printed' = printed \o <<"savings table", "tokens saved">>
                     ELSE /\ printed' = printed \o
                                 <<"savings table", "tokens saved", "reduction">>
                          /\ err' = err
                          /\ pc' = "c_verdict"
    /\ UNCHANGED <<Env, baseline, current, prompts, rows, totals, data>>

\* the closing line chosen by the sign of savings
CVerdict ==
    /\ pc = "c_verdict"
    /\ printed' = printed \o <<c_verdict(eff.savings)>>
    /\ pc' = "done"
    /\ UNCHANGED <<Env, err, baseline, current, prompts, rows, totals, eff, data>>

NextCompare ==
    \/ CLoadBaseline
    \/ CMeasure
    \/ CHeader
    \/ CRows
    \/ CPrompts
    \/ CSavings
    \/ CVerdict

SpecCompare == InitCompare /\ [][NextCompare]_vars

---------------------------------------------------------------------------
(* measure-context.py: main() *)

\* The inputs of a run of measure-context.py: <<files, dirs, prompt files>>
MeasureInputs ==
    (FilesBySubset \X {NoDirs} \X {DefaultPromptFiles})
    \cup (FilesByRole \X {NoDirs} \X {DefaultPromptFiles})
    \cup ({ f \in FilesAlike : f[ExecutePath].readable }
             \X DirSystemsByThree \X PromptFileSystems)

InitMeasure ==
    /\ \E in \in MeasureInputs :
          /\ cmdFiles = in[1]
          /\ dirs = in[2]
          /\ promptFiles = in[3]
    /\ baselineFile = [state |-> "missing", value |-> None]
    /\ argv \in { <<MeasureScript>>, <<MeasureScript, "--json">> }
    /\ pc = "m_main"
    /\ err = NoExc
    /\ printed = <<>>
    /\ baseline = None
    /\ current = <<>>
    /\ prompts = NoPrompts
    /\ rows = <<>>
    /\ totals = NoTotals
    /\ eff = NoEff
    /\ data = NoData

CompareVars == <<baseline, current, prompts, rows, totals, eff>>

\* data = {'timestamp': ..., 'commands': ..., 'execute_invocation': ..., 'prompt_files': ...}
MBuild ==
    /\ pc = "m_main"
    /\ LET c == measure_commands
           e == measure_execute_invocation
           p == m_measure_prompt_files
           raised == IF c.raised # NoExc THEN c.raised
                     ELSE IF e.raised # NoExc THEN e.raised ELSE p.raised
       IN IF raised # NoExc
          THEN /\ Raise(raised)
               /\ UNCHANGED data
          ELSE /\ data' = [built |-> TRUE,
                           timestamp |-> "now",
                           commands |-> c.results,
                           execute_invocation |-> e.value,
                           prompt_files |-> p.results,
                           totals |-> NoData.totals]
               /\ err' = err
               /\ pc' = "m_totals"
    /\ UNCHANGED <<Env, printed, CompareVars>>

\* data['totals'] = {...}
MTotals ==
    /\ pc = "m_totals"
    /\ data' = [data EXCEPT !.totals = m_totals(data.commands)]
    /\ pc' = "m_output"
    /\ UNCHANGED <<Env, err, printed, CompareVars>>

\* print(json.dumps(data, indent=2)) or the pretty-printed report
MOutput ==
    /\ pc = "m_output"
    /\ printed' =
          IF output_json THEN <<"json">>
          ELSE <<"large commands", "total", "invocation">>
               \o (IF data.prompt_files # <<>> THEN <<"prompt files">>
                   ELSE <<"no prompt files">>)
               \o <<"how to save the baseline">>
    /\ pc' = "done"
    /\ UNCHANGED <<Env, err, data, CompareVars>>

NextMeasure ==
    \/ MBuild
    \/ MTotals
    \/ MOutput

SpecMeasure == InitMeasure /\ [][NextMeasure]_vars

---------------------------------------------------------------------------
(* Both scripts *)

Init == InitCompare \/ InitMeasure

Next == NextCompare \/ NextMeasure

Spec == Init /\ [][Next]_vars

---------------------------------------------------------------------------
(* Properties *)

RunsCompare == argv[1] = CompareScript
RunsMeasure == argv[1] = MeasureScript
Printed(tag) == \E i \in 1..Len(printed) : printed[i] = tag
CommandNameSeq == [i \in 1..Len(Commands) |-> Commands[i][1]]
ReadErrors == {"FileNotFoundError", "PermissionError", "UnicodeDecodeError"}

\* C1: when .tiki/context-baseline.json does not exist, load_baseline prints the
\* guidance and returns None, and main of the comparison script returns normally
\* having measured nothing and printed no table and no savings section.
C1_MissingBaselineStopsCleanly ==
    (RunsCompare /\ baselineFile.state = "missing")
        => /\ load_baseline = [raised |-> NoExc, printed |-> Guidance, value |-> None]
           /\ pc \in {"c_main", "done"}
           /\ pc = "done" =>
                /\ err = NoExc
                /\ printed = Guidance
                /\ baseline = None
                /\ current = <<>>
                /\ prompts = NoPrompts
                /\ rows = <<>>
                /\ eff = NoEff

C1_Witness == RunsCompare /\ baselineFile.state = "missing" /\ pc = "done"

\* C2: count_tokens gives tokens = 0 and lines = 0 for every unreadable file and never
\* raises, so whatever subset of the command files is unreadable, measure_commands and
\* measure_current hold one entry per name of the fixed list, in declaration order.
C2_UnreadableFilesCountZero ==
    /\ \A p \in AllFilePaths :
         ~cmdFiles[p].readable =>
            /\ m_count_tokens(cmdFiles[p]) = [raised |-> NoExc, tokens |-> 0, lines |-> 0]
            /\ c_count_tokens(cmdFiles[p]) = [raised |-> NoExc, tokens |-> 0, lines |-> 0]
    /\ (pc = "failed" /\ (RunsMeasure \/ baselineFile.state = "json")) =>
         err \notin ReadErrors
    /\ (RunsMeasure /\ pc \in {"m_totals", "m_output", "done"}) =>
         /\ DictKeys(data.commands) = CommandNameSeq
         /\ \A i \in 1..Len(Commands) :
              ~cmdFiles[Commands[i][2]].readable =>
                 data.commands[i].v.tokens = 0 /\ data.commands[i].v.lines = 0
    /\ (RunsCompare /\ pc \in {"c_header", "c_rows", "c_prompts", "c_savings", "c_verdict"}) =>
         /\ DictKeys(current) = CommandNameSeq
         /\ \A i \in 1..Len(Commands) :
              ~cmdFiles[Commands[i][2]].readable =>
                 current[i].v.tokens = 0 /\ current[i].v.lines = 0

C2_Witness ==
    /\ RunsMeasure
    /\ pc = "done"
    /\ \E p, q \in CommandPaths :
          /\ cmdFiles[p].why = "denied"
          /\ cmdFiles[q].readable
          /\ Len(cmdFiles[q].content) > 0
    /\ Len(data.commands) = Len(Commands)

\* A loaded baseline record whose entries all hold a token count >= 0
WellFormedBaseline ==
    /\ baselineFile.state = "json"
    /\ baselineFile.value.kind = "dict"
    /\ baselineFile.value.hasTimestamp
    /\ baselineFile.value.hasCommands
    /\ \A i \in 1..Len(baselineFile.value.commands) :
          /\ baselineFile.value.commands[i].v.hasTokens
          /\ baselineFile.value.commands[i].v.tokens >= 0
NoBrokenDir == \A d \in PromptDirSet : dirs[d].exists => dirs[d].isdir

\* C3: the comparison never errors on schema drift: whatever subset of the current
\* command names (execute.md included) the baseline's commands mapping lacks, the run
\* completes without error, each absent entry counting as zero.
C3_NoErrorOnSchemaDrift ==
    (RunsCompare /\ WellFormedBaseline /\ NoBrokenDir) => err = NoExc

\* C4: the TOTAL row holds the sum of the current token counts and the sum of the
\* baseline token counts of the per-command rows, one row per name of current in
\* current's order, and its change is total current minus total baseline.
C4_TotalRowSumsRows ==
    (RunsCompare /\ Printed("total")) =>
        /\ [i \in 1..Len(rows) |-> rows[i].name] = DictKeys(current)
        /\ \A i \in 1..Len(rows) : rows[i].curr_tokens = current[i].v.tokens
        /\ totals.total_current = SumSeq([i \in 1..Len(rows) |-> rows[i].curr_tokens])
        /\ totals.total_baseline = SumSeq([i \in 1..Len(rows) |-> rows[i].base_tokens])
        /\ totals.total_change = totals.total_current - totals.total_baseline

C4_Witness ==
    /\ RunsCompare
    /\ Printed("total")
    /\ \E i, j \in 1..Len(rows) :
          /\ rows[i].curr_tokens > 0
          /\ rows[j].curr_tokens = 0
          /\ rows[i].base_tokens > 0
          /\ rows[j].base_tokens > 0
    /\ totals.total_current > 1
    /\ totals.total_baseline > totals.total_current

C6_EffectiveSavings ==
    /\ c_before_total(10000) = 16115
    /\ c_after_total(7000) = 13115
    /\ c_verdict(c_before_total(10000) - c_after_total(7000)) = "saving"
    /\ (RunsCompare /\ Printed("tokens saved")) =>
          LET b == DictGet(baselineFile.value.commands, "execute.md").tokens
              c == DictGet(current, "execute.md").tokens
          IN /\ eff.before_total = 3000 + b + 1115 + 1500 + 500
             /\ eff.after_total = 3000 + c + 1115 + 1500 + 500
             /\ eff.savings = eff.before_total - eff.after_total
             /\ eff.savings = b - c
    /\ (RunsCompare /\ pc = "done" /\ Printed("reduction")) =>
          /\ printed[Len(printed)] \in {"saving", "no change", "increased"}
          /\ printed[Len(printed)] = "saving" <=> eff.savings > 0
          /\ printed[Len(printed)] = "no change" <=> eff.savings = 0
          /\ printed[Len(printed)] = "increased" <=> eff.savings < 0

C6_Witness ==
    /\ RunsCompare
    /\ pc = "done"
    /\ Printed("no change")
    /\ eff.savings = 0
    /\ eff.after_total > 3000 + 1115 + 1500 + 500

\* C7: in every snapshot the measurement script builds, totals' token count is the sum
\* of the token counts of the entries of commands and totals' line count the sum of
\* their line counts; the prompt files' token counts are not part of these totals.
C7_TotalsSumCommands ==
    (RunsMeasure /\ pc \in {"m_output", "done"}) =>
        /\ data.totals.all_large_commands_tokens =
              SumSeq([i \in 1..Len(data.commands) |-> data.commands[i].v.tokens])
        /\ data.totals.all_large_commands_lines =
              SumSeq([i \in 1..Len(data.commands) |-> data.commands[i].v.lines])

C7_Witness ==
    /\ RunsMeasure
    /\ pc = "done"
    /\ data.totals.all_large_commands_tokens > 1
    /\ data.totals.all_large_commands_lines > data.totals.all_large_commands_tokens
    /\ \E i \in 1..Len(data.prompt_files) :
          \E j \in 1..Len(data.prompt_files[i].v) :
             data.prompt_files[i].v[j].v.tokens > 0

\* the names of a listing that end in ".md", in the listing's order
MdFiles(d) == SelectSeq(dirs[d].listing, LAMBDA n : endswith(n, DotMd))

\* C8 (as claimed): for every directory of the fixed list, one that does not exist is
\* no key of prompt_files and raises no error, and one that exists is a key of
\* prompt_files whose entry holds one metric per file of it named *.md and no other.
C8_PromptDirsAsClaimed ==
    /\ (RunsMeasure /\ pc = "failed") => \E d \in PromptDirSet : dirs[d].exists
    /\ (RunsMeasure /\ data.built) =>
          \A d \in PromptDirSet :
             /\ ~dirs[d].exists => ~HasKey(data.prompt_files, d)
             /\ dirs[d].exists =>
                   /\ HasKey(data.prompt_files, d)
                   /\ DictKeys(DictGet(data.prompt_files, d)) = MdFiles(d)

\* C8 (amended): for every directory of the fixed list, one that does not exist, or that
\* holds no file named *.md, is no key of prompt_files and raises no error, and one that
\* exists and holds such a file is a key of prompt_files whose entry holds one metric
\* per file of it named *.md and no other.
C8_PromptDirs ==
    /\ (RunsMeasure /\ pc = "failed") =>
          \E d \in PromptDirSet : dirs[d].exists /\ ~dirs[d].isdir
    /\ (RunsMeasure /\ data.built) =>
          \A d \in PromptDirSet :
             /\ (~dirs[d].exists \/ MdFiles(d) = <<>>) => ~HasKey(data.prompt_files, d)
             /\ (dirs[d].exists /\ MdFiles(d) # <<>>) =>
                   /\ HasKey(data.prompt_files, d)
                   /\ DictKeys(DictGet(data.prompt_files, d)) = MdFiles(d)
                   /\ \A j \in 1..Len(MdFiles(d)) :
                        LET m == m_count_tokens(promptFiles[join(d, MdFiles(d)[j])])
                        IN DictGet(data.prompt_files, d)[j].v =
                              [tokens |-> m.tokens, lines |-> m.lines]

C8_Witness ==
    /\ RunsMeasure
    /\ data.built
    /\ \E d1, d2, d3 \in PromptDirSet :
          /\ dirs[d1].exists /\ Len(dirs[d1].listing) = 2 /\ HasKey(data.prompt_files, d1)
          /\ dirs[d2].exists /\ dirs[d2].isdir /\ ~HasKey(data.prompt_files, d2)
          /\ ~dirs[d3].exists

C10_NeverEndsSilently ==
    (RunsCompare /\ pc = "done" /\ ~Printed("reduction")) =>
        /\ printed = Guidance
        /\ baselineFile.state = "missing"

====
